---- MODULE Spec2Model ----
(***************************************************************************)
(* A model of apscheduler's BaseScheduler (schedulers/base.py): the        *)
(* lifecycle (start / shutdown), the pending-jobs list, the job-store and  *)
(* executor registries, the listener list and the firing loop             *)
(* _process_jobs.  Jobs, triggers, job stores and executors are the        *)
(* collaborators base.py imports; they are modelled from their contracts.  *)
(*                                                                         *)
(* Time is a natural number of clock ticks; the Python value None is the   *)
(* integer -1 for every time-, count- or id-valued field.                  *)
(***************************************************************************)
EXTENDS Integers, Sequences, FiniteSets, TLC

\* ------------------------------------------------------------------ bounds
MaxTime == 3
MaxPending == 2
MaxJobId == 2
MaxListeners == 3

\* --------------------------------------------------------------- constants
None == 0 - 1
NoAlias == ""
NoError == "ok"
AlreadyRunning == "SchedulerAlreadyRunningError"
NotRunning == "SchedulerNotRunningError"
KeyError == "KeyError"
ConflictingId == "ConflictingIdError"
JobLookupError == "JobLookupError"

\* The scheduler's configured default misfire grace when none is given.
DefaultMisfireGraceTime == 1

Aliases == {"default", "other"}
JobIds == 1..MaxJobId

VARIABLES
    stopped,             \* self._stopped
    executors,           \* keys of self._executors
    jobstores,           \* self._jobstores: alias -> sequence of jobs held
    pending,             \* self._pending_jobs: sequence of [job, alias]
    listeners,           \* self._listeners: sequence of <<callback, mask>>
    misfire_grace_time,  \* self.misfire_grace_time (configured default)
    coalesce,            \* self.coalesce (configured default)
    now,                 \* the clock read by datetime.now(self.timezone)
    events,              \* events the latest call passed to _notify_listeners
    last,                \* the latest call: operation, argument, exception
    was_shut_down,       \* history: shutdown() returned and start() was not
                         \* called since
    submissions,         \* the executor.submit_job calls of the latest
                         \* _process_jobs, with their outcomes
    submitted,           \* history: job id -> run times submitted with
                         \* success so far
    inflight,            \* executor side: job id -> running instances
    wait_seconds,        \* the value the latest _process_jobs returned
    spc, sidx,           \* interleaved start(): position, list-iterator index
    apc, ajob,           \* interleaved add_job(): position, the job in hand
    handles,             \* history: job ids for which add_job returned
    called,              \* the calls the latest start(), shutdown(),
                         \* add_executor() or _process_jobs() made on
                         \* executors (start, shutdown, submit_job), on stores
                         \* (close, remove_job) and, for shutdown and the
                         \* scan, on the listener list, in order
    started,             \* history: aliases of the executors on which
                         \* start(scheduler) was invoked
    npc, nsnap, nidx,    \* interleaved _notify_listeners(): position, the
                         \* tuple of listeners it copied, index into it
    nevent,              \* the event it is delivering
    delivered            \* the callbacks it invoked, in order

sched == <<stopped, executors, jobstores, pending>>
config == <<misfire_grace_time, coalesce>>
firing == <<submissions, submitted, inflight, wait_seconds>>
threads == <<spc, sidx, apc, ajob, handles>>
collab == <<called, started>>
bus == <<npc, nsnap, nidx, nevent, delivered>>
steps == <<bus>>
vars == <<sched, listeners, config, steps, collab, now, events, last, was_shut_down, firing,
          threads>>

\* ------------------------------------------------------------- sequences
DeleteAt(s, i) == SubSeq(s, 1, i - 1) \o SubSeq(s, i + 1, Len(s))

\* The first index of s whose element satisfies P, 0 when there is none.
FirstIndex(s, P(_)) ==
    IF \E i \in 1..Len(s) : P(s[i])
    THEN CHOOSE i \in 1..Len(s) : P(s[i]) /\ \A k \in 1..(i - 1) : ~P(s[k])
    ELSE 0

Ids(store) == {store[i].id : i \in 1..Len(store)}

Call(op, arg, raised) == [op |-> op, arg |-> arg, raised |-> raised]

\* A call made on a collaborator: the method, the alias of the executor or
\* store, the argument (<<>> for none) and the scheduler locks the calling
\* thread holds while the method runs.
CallOn(method, alias, arg, held) ==
    [call |-> method, on |-> alias, arg |-> arg, held |-> held]

\* ------------------------------------------------------------- events
Event(code, alias, job_id) == <<code, alias, job_id>>
SchedulerEvent(code) == Event(code, NoAlias, None)

\* The indices of the registrations of `ls`, from index i on, whose mask
\* holds the code of `event`.
RECURSIVE MatchingFrom(_, _, _)
MatchingFrom(ls, i, event) ==
    IF i > Len(ls) THEN <<>>
    ELSE (IF event[1] \in ls[i][2] THEN <<i>> ELSE <<>>)
         \o MatchingFrom(ls, i + 1, event)

\* The order in which the registry dicts are iterated.
AliasOrder == <<"default", "other">>

\* One call of `method`, with argument arg and no lock held, on each of the
\* registered `aliases`, in dict order.
RECURSIVE CallsOn(_, _, _, _)
CallsOn(method, order, aliases, arg) ==
    IF order = <<>> THEN <<>>
    ELSE (IF Head(order) \in aliases
          THEN <<CallOn(method, Head(order), arg, {})>> ELSE <<>>)
         \o CallsOn(method, Tail(order), aliases, arg)

\* What _notify_listeners(event) does on a thread that holds the locks
\* `outer`: it copies the listener list inside _listeners_lock, then calls
\* back each registration whose mask holds the event's code, outside it.
Notified(event, outer) ==
    LET hits == MatchingFrom(listeners, 1, event)
    IN <<CallOn("listeners.copy", event[1], <<event[3]>>,
                outer \cup {"listeners"})>>
       \o [k \in 1..Len(hits) |->
             CallOn("listener.callback", event[1], <<event[3]>>, outer)]

\* ------------------------------------------------------------- triggers
\* A trigger is [kind, start, every]: a date trigger fires once at start, an
\* interval trigger fires at start, start + every, start + 2 every, ...
DateTrigger(run_date) == [kind |-> "date", start |-> run_date, every |-> 0]
IntervalTrigger(start, every) ==
    [kind |-> "interval", start |-> start, every |-> every]

\* trigger.get_next_fire_time(after): the first fire time at or after `after`.
NextFireTime(trigger, after) ==
    IF trigger.kind = "date"
    THEN IF trigger.start >= after THEN trigger.start ELSE None
    ELSE IF after <= trigger.start
         THEN trigger.start
         ELSE trigger.start
              + ((after - trigger.start + trigger.every - 1) \div trigger.every)
                * trigger.every

\* ----------------------------------------------------------------- jobs
NoTrigger == [kind |-> "none", start |-> 0, every |-> 0]

\* Job(**job_kwargs) as add_job builds it.  An argument that may be None and
\* is not a number (coalesce) is <<>> for None and <<v>> for v.
NewJob(trigger, id, mgt_arg, coalesce_arg, max_runs, max_instances, executor) ==
    LET trig == IF trigger = NoTrigger THEN DateTrigger(now) ELSE trigger
        mgt == IF trigger = NoTrigger THEN None ELSE mgt_arg
    IN [id |-> id,
        trigger |-> trig,
        executor |-> executor,
        misfire_grace_time |-> IF mgt # None THEN mgt ELSE misfire_grace_time,
        coalesce |-> IF coalesce_arg # <<>> THEN coalesce_arg[1] ELSE coalesce,
        max_runs |-> max_runs,
        max_instances |-> max_instances,
        next_run_time |-> None,
        runs |-> 0]

\* A change set is a set of <<field, value>> pairs.
Changed(changes, f) == \E c \in changes : c[1] = f
ChangeOf(changes, f) == (CHOOSE c \in changes : c[1] = f)[2]

\* job.modify(changes) / the store's partial update of one job.
ApplyChanges(job, changes) ==
    [job EXCEPT
       !.misfire_grace_time = IF Changed(changes, "misfire_grace_time")
                              THEN ChangeOf(changes, "misfire_grace_time") ELSE @,
       !.max_runs = IF Changed(changes, "max_runs")
                    THEN ChangeOf(changes, "max_runs") ELSE @,
       !.next_run_time = IF Changed(changes, "next_run_time")
                         THEN ChangeOf(changes, "next_run_time") ELSE @,
       !.runs = IF Changed(changes, "runs") THEN ChangeOf(changes, "runs") ELSE @]

\* ----------------------------------------------------------- job stores
\* A store is the sequence of the jobs it holds, in insertion order.
StoreHas(store, id) == id \in Ids(store)
StoreIndex(store, id) == FirstIndex(store, LAMBDA j : j.id = id)
StoreAddJob(store, job) == Append(store, job)
StoreModifyJob(store, id, changes) ==
    [store EXCEPT ![StoreIndex(store, id)] = ApplyChanges(@, changes)]
StoreRemoveJob(store, id) == DeleteAt(store, StoreIndex(store, id))

\* ------------------------------------------------------- _real_add_job
\* _real_add_job without its JOB_ADDED notification.
RealAddJobQuiet(job, alias, stores) ==
    LET j == [job EXCEPT !.next_run_time = NextFireTime(job.trigger, now)]
    IN IF alias \notin DOMAIN stores
       THEN [raised |-> KeyError, job |-> j, stores |-> stores, events |-> <<>>]
       ELSE IF j.id \in Ids(stores[alias])
       THEN [raised |-> ConflictingId, job |-> j, stores |-> stores,
             events |-> <<>>]
       ELSE [raised |-> NoError, job |-> j,
             stores |-> [stores EXCEPT ![alias] = Append(@, j)],
             events |-> <<>>]

\* The outcome of _real_add_job(job, alias, wakeup) on the registry `stores`:
\* the job as left (its next_run_time is assigned before the store is looked
\* up), the stores, the event notified, and the exception raised.
RealAddJob(job, alias, stores) ==
    LET j == [job EXCEPT !.next_run_time = NextFireTime(job.trigger, now)]
    IN IF alias \notin DOMAIN stores
       THEN [raised |-> KeyError, job |-> j, stores |-> stores, events |-> <<>>]
       ELSE IF StoreHas(stores[alias], j.id)
       THEN [raised |-> ConflictingId, job |-> j, stores |-> stores,
             events |-> <<>>]
       ELSE [raised |-> NoError, job |-> j,
             stores |-> [stores EXCEPT ![alias] = StoreAddJob(@, j)],
             events |-> <<Event("JOB_ADDED", alias, j.id)>>]

\* start()'s loop over self._pending_jobs from list index i on: it stops at
\* the first _real_add_job that raises.
\* A flush that takes each entry out of the pending list as it is stored.
RECURSIVE FlushPendingDropping(_, _, _, _)
FlushPendingDropping(pend, i, stores, evs) ==
    IF i > Len(pend)
    THEN [raised |-> NoError, pending |-> pend, stores |-> stores, events |-> evs]
    ELSE LET r == RealAddJob(pend[i].job, pend[i].alias, stores)
             pend1 == [pend EXCEPT ![i].job = r.job]
         IN IF r.raised # NoError
            THEN [raised |-> r.raised, pending |-> SubSeq(pend1, i, Len(pend1)),
                  stores |-> r.stores, events |-> evs]
            ELSE FlushPendingDropping(pend1, i + 1, r.stores, evs \o r.events)

RECURSIVE FlushPending(_, _, _, _)
FlushPending(pend, i, stores, evs) ==
    IF i > Len(pend)
    THEN [raised |-> NoError, pending |-> pend, stores |-> stores, events |-> evs]
    ELSE LET r == RealAddJob(pend[i].job, pend[i].alias, stores)
             pend1 == [pend EXCEPT ![i].job = r.job]
         IN IF r.raised # NoError
            THEN [raised |-> r.raised, pending |-> pend1, stores |-> r.stores,
                  events |-> evs]
            ELSE FlushPending(pend1, i + 1, r.stores, evs \o r.events)

\* ------------------------------------------------------------ lifecycle
running == ~stopped

\* start(), run without interruption.
Start ==
    /\ spc = "idle"
    /\ IF running
       THEN /\ last' = Call("start", None, AlreadyRunning)
            /\ events' = <<>>
            /\ called' = <<>>
            /\ UNCHANGED <<sched, was_shut_down, started>>
       ELSE LET withDefault == IF "default" \in DOMAIN jobstores
                               THEN jobstores
                               ELSE jobstores @@ ("default" :> <<>>)
                ev0 == IF "default" \in DOMAIN jobstores
                       THEN <<>>
                       ELSE <<Event("JOBSTORE_ADDED", "default", None)>>
                f == FlushPending(pending, 1, withDefault, ev0)
            IN /\ executors' = executors \cup {"default"}
               /\ called' = CallsOn("executor.start", AliasOrder, executors',
                                    <<>>)
               /\ started' = started \cup executors'
               /\ jobstores' = f.stores
               /\ IF f.raised = NoError
                  THEN /\ pending' = <<>>
                       /\ stopped' = FALSE
                       /\ events' = f.events
                                    \o <<SchedulerEvent("SCHEDULER_STARTED")>>
                  ELSE /\ pending' = f.pending
                       /\ events' = f.events
                       /\ UNCHANGED stopped
               /\ was_shut_down' = FALSE
               /\ last' = Call("start", None, f.raised)
    /\ UNCHANGED <<listeners, config, steps, now, firing, threads>>

ShutdownUnchecked(wait) ==
    /\ stopped' = TRUE
    /\ was_shut_down' = TRUE
    /\ called' = CallsOn("executor.shutdown", AliasOrder, executors, <<wait>>)
                 \o CallsOn("jobstore.close", AliasOrder, DOMAIN jobstores, <<>>)
                 \o Notified(SchedulerEvent("SCHEDULER_SHUTDOWN"), {})
    /\ events' = <<SchedulerEvent("SCHEDULER_SHUTDOWN")>>
    /\ last' = Call("shutdown", wait, NoError)
    /\ UNCHANGED <<executors, jobstores, pending, listeners, config, steps,
                   started, now, firing, threads>>

\* shutdown(wait) that closes the stores before it shuts the executors down.
ShutdownStoresFirst(wait) ==
    IF ~running
    THEN /\ last' = Call("shutdown", wait, NotRunning)
         /\ events' = <<>>
         /\ called' = <<>>
         /\ UNCHANGED <<sched, listeners, config, steps, started, now,
                        was_shut_down, firing, threads>>
    ELSE /\ stopped' = TRUE
         /\ was_shut_down' = TRUE
         /\ called' = CallsOn("jobstore.close", AliasOrder, DOMAIN jobstores,
                              <<>>)
                      \o CallsOn("executor.shutdown", AliasOrder, executors,
                                 <<wait>>)
                      \o Notified(SchedulerEvent("SCHEDULER_SHUTDOWN"), {})
         /\ events' = <<SchedulerEvent("SCHEDULER_SHUTDOWN")>>
         /\ last' = Call("shutdown", wait, NoError)
         /\ UNCHANGED <<executors, jobstores, pending, listeners, config, steps,
                        started, now, firing, threads>>

\* shutdown(wait)
Shutdown(wait) ==
    IF ~running
    THEN /\ last' = Call("shutdown", wait, NotRunning)
         /\ events' = <<>>
         /\ called' = <<>>
         /\ UNCHANGED <<sched, listeners, config, steps, started, now,
                        was_shut_down, firing, threads>>
    ELSE /\ stopped' = TRUE
         /\ was_shut_down' = TRUE
         /\ called' = CallsOn("executor.shutdown", AliasOrder, executors,
                              <<wait>>)
                      \o CallsOn("jobstore.close", AliasOrder, DOMAIN jobstores,
                                 <<>>)
                      \o Notified(SchedulerEvent("SCHEDULER_SHUTDOWN"), {})
         /\ events' = <<SchedulerEvent("SCHEDULER_SHUTDOWN")>>
         /\ last' = Call("shutdown", wait, NoError)
         /\ UNCHANGED <<executors, jobstores, pending, listeners, config, steps,
                        started, now, firing, threads>>

\* add_executor(executor, alias): the executor is registered, and started
\* when the scheduler runs, inside `with self._executors_lock`.
AddExecutor(alias) ==
    /\ IF alias \in executors
       THEN /\ last' = Call("add_executor", alias, KeyError)
            /\ called' = <<>>
            /\ UNCHANGED <<executors, started>>
       ELSE /\ last' = Call("add_executor", alias, NoError)
            /\ executors' = executors \cup {alias}
            /\ IF running
               THEN /\ called' = <<CallOn("executor.start", alias, <<>>,
                                          {"executors"})>>
                    /\ started' = started \cup {alias}
               ELSE /\ called' = <<>>
                    /\ UNCHANGED started
    /\ events' = <<>>
    /\ UNCHANGED <<stopped, jobstores, pending, listeners, config, steps, now,
                   was_shut_down, firing, threads>>

\* add_jobstore(jobstore, alias, quiet): the store added is an empty one.
AddJobstore(alias) ==
    /\ IF alias \in DOMAIN jobstores
       THEN /\ last' = Call("add_jobstore", alias, KeyError)
            /\ events' = <<>>
            /\ UNCHANGED jobstores
       ELSE /\ last' = Call("add_jobstore", alias, NoError)
            /\ events' = <<Event("JOBSTORE_ADDED", alias, None)>>
            /\ jobstores' = jobstores @@ (alias :> <<>>)
    /\ UNCHANGED <<stopped, executors, pending, listeners, config, steps, collab, now,
                   was_shut_down, firing, threads>>

\* ------------------------------------------------------------ mutation API
PendingIndex(pend, job_id) == FirstIndex(pend, LAMBDA e : e.job.id = job_id)

\* add_job(func, trigger, ..., jobstore=alias, executor=executor)
AddJob(trigger, id, mgt_arg, coalesce_arg, max_runs, alias, executor) ==
    LET job == NewJob(trigger, id, mgt_arg, coalesce_arg, max_runs, 1, executor)
        args == [id |-> id, alias |-> alias, trigger |-> trigger]
    IN /\ apc = "idle"
       /\ IF ~running
          THEN /\ Len(pending) < MaxPending
               /\ pending' = Append(pending, [job |-> job, alias |-> alias])
               /\ events' = <<>>
               /\ last' = Call("add_job", args, NoError)
               /\ UNCHANGED jobstores
          ELSE LET r == RealAddJob(job, alias, jobstores)
               IN /\ jobstores' = r.stores
                  /\ events' = r.events
                  /\ last' = Call("add_job", args, r.raised)
                  /\ UNCHANGED pending
       /\ UNCHANGED <<stopped, executors, listeners, config, steps, collab, now, was_shut_down,
                      firing, threads>>

\* modify_job(job_id, jobstore=alias, **changes)
ModifyJob(job_id, alias, changes) ==
    LET i == PendingIndex(pending, job_id)
        args == [id |-> job_id, alias |-> alias, changes |-> changes]
    IN /\ IF i # 0
          THEN /\ pending' = [pending EXCEPT ![i].job = ApplyChanges(@, changes)]
               /\ events' = <<>>
               /\ last' = Call("modify_job", args, NoError)
               /\ UNCHANGED jobstores
          ELSE IF alias \notin DOMAIN jobstores
          THEN /\ last' = Call("modify_job", args, KeyError)
               /\ events' = <<>>
               /\ UNCHANGED <<jobstores, pending>>
          ELSE IF ~StoreHas(jobstores[alias], job_id)
          THEN /\ last' = Call("modify_job", args, JobLookupError)
               /\ events' = <<>>
               /\ UNCHANGED <<jobstores, pending>>
          ELSE /\ jobstores' = [jobstores EXCEPT
                                  ![alias] = StoreModifyJob(@, job_id, changes)]
               /\ events' = <<Event("JOB_MODIFIED", alias, job_id)>>
               /\ last' = Call("modify_job", args, NoError)
               /\ UNCHANGED pending
       /\ UNCHANGED <<stopped, executors, listeners, config, steps, collab, now, was_shut_down,
                      firing, threads>>

\* What remove_job(job_id, jobstore=alias) does to the pending list, the
\* stores and the events notified.
RemoveJobOutcome(pend, stores, job_id, alias) ==
    LET i == PendingIndex(pend, job_id)
    IN IF i # 0
       THEN [raised |-> NoError, pending |-> DeleteAt(pend, i), stores |-> stores,
             events |-> <<>>]
       ELSE IF alias \notin DOMAIN stores
       THEN [raised |-> KeyError, pending |-> pend, stores |-> stores,
             events |-> <<>>]
       ELSE IF ~StoreHas(stores[alias], job_id)
       THEN [raised |-> JobLookupError, pending |-> pend, stores |-> stores,
             events |-> <<>>]
       ELSE [raised |-> NoError, pending |-> pend,
             stores |-> [stores EXCEPT ![alias] = StoreRemoveJob(@, job_id)],
             events |-> <<Event("JOB_REMOVED", alias, job_id)>>]

\* remove_job(job_id, jobstore=alias)
RemoveJob(job_id, alias) ==
    LET r == RemoveJobOutcome(pending, jobstores, job_id, alias)
    IN /\ pending' = r.pending
       /\ jobstores' = r.stores
       /\ events' = r.events
       /\ last' = Call("remove_job", [id |-> job_id, alias |-> alias], r.raised)
       /\ UNCHANGED <<stopped, executors, listeners, config, steps, collab, now, was_shut_down,
                      firing, threads>>

\* The clock advances by one tick.
Tick ==
    /\ now < MaxTime
    /\ now' = now + 1
    /\ events' = <<>>
    /\ last' = Call("tick", None, NoError)
    /\ UNCHANGED <<sched, listeners, config, steps, collab, was_shut_down, firing, threads>>

AttributeError == "AttributeError"

RECURSIVE HandlesOf(_, _)
HandlesOf(alias, store) ==
    IF store = <<>> THEN <<>>
    ELSE <<[alias |-> alias, id |-> Head(store).id]>> \o HandlesOf(alias, Tail(store))

RECURSIVE PendingHandles(_, _)
PendingHandles(pend, alias) ==
    IF pend = <<>> THEN <<>>
    ELSE (IF alias = NoAlias \/ Head(pend).alias = alias
          THEN <<[alias |-> Head(pend).alias, id |-> Head(pend).job.id]>>
          ELSE <<>>) \o PendingHandles(Tail(pend), alias)

RECURSIVE StoredHandles(_, _)
StoredHandles(order, stores) ==
    IF order = <<>> THEN <<>>
    ELSE (IF Head(order) \in DOMAIN stores
          THEN HandlesOf(Head(order), stores[Head(order)])
          ELSE <<>>) \o StoredHandles(Tail(order), stores)

\* get_jobs(jobstore=alias, pending=flag): alias is NoAlias for None, flag is
\* "True", "False" or "None".  With an alias given, `jobstores` is the list
\* [alias], which six.iteritems cannot iterate.
GetJobs(alias, flag) ==
    LET first == IF flag # "False" THEN PendingHandles(pending, alias) ELSE <<>>
    IN IF flag = "True"
       THEN [raised |-> NoError, jobs |-> first]
       ELSE IF alias # NoAlias
       THEN [raised |-> AttributeError, jobs |-> <<>>]
       ELSE [raised |-> NoError,
             jobs |-> first \o StoredHandles(AliasOrder, jobstores)]

\* ------------------------------------------------- the API, call by call
MaxGrace == 1
ConfigGraces == 0..MaxGrace

\* The arguments the callers of this specification pass.
ApiTrigger == IntervalTrigger(1, 2)
ApiChanges == { {}, {<<"next_run_time", 1>>} }

\* No call of the stepwise operations is under way.
InitSteps ==
    /\ npc = "idle"
    /\ nsnap = <<>>
    /\ nidx = 0
    /\ nevent = <<>>
    /\ delivered = <<>>

Init ==
    /\ stopped = TRUE
    /\ executors = {}
    /\ jobstores = <<>>
    /\ pending = <<>>
    /\ listeners = <<>>
    /\ misfire_grace_time = DefaultMisfireGraceTime
    /\ coalesce = TRUE
    /\ now = 0
    /\ events = <<>>
    /\ last = Call("init", None, NoError)
    /\ was_shut_down = FALSE
    /\ submissions = <<>>
    /\ submitted = [id \in JobIds |-> 0]
    /\ inflight = [id \in JobIds |-> 0]
    /\ wait_seconds = None
    /\ spc = "idle"
    /\ sidx = 0
    /\ apc = "idle"
    /\ ajob = <<>>
    /\ handles = {}
    /\ called = <<>>
    /\ started = {}
    /\ InitSteps

Next ==
    \/ Start
    \/ Shutdown(TRUE)
    \/ \E a \in Aliases : AddJobstore(a)
    \/ \E id \in JobIds, a \in Aliases :
           AddJob(ApiTrigger, id, None, <<>>, None, a, "default")
    \/ \E id \in JobIds, a \in Aliases, c \in ApiChanges : ModifyJob(id, a, c)
    \/ \E id \in JobIds, a \in Aliases : RemoveJob(id, a)

Spec == Init /\ [][Next]_vars

\* ======================================================================
\* Properties of the API taken call by call (specification Spec)
\* ======================================================================
OfCode(evs, codes) == SelectSeq(evs, LAMBDA e : e[1] \in codes)

\* C1: start() on a running scheduler raises SchedulerAlreadyRunningError and
\* shutdown() on a stopped one (a second shutdown() included) raises
\* SchedulerNotRunningError; neither failing call changes the running flag,
\* the registries or the pending list, and neither emits an event.
C1_LifecycleErrors ==
    [][ /\ (last'.op = "start" /\ running) =>
              /\ last'.raised = AlreadyRunning
              /\ UNCHANGED <<stopped, executors, jobstores, pending>>
              /\ events' = <<>>
        /\ (last'.op = "shutdown" /\ ~running) =>
              /\ last'.raised = NotRunning
              /\ UNCHANGED <<stopped, executors, jobstores, pending>>
              /\ events' = <<>> ]_vars

\* A second shutdown() has failed on a scheduler that holds jobs.
C1_Witness ==
    /\ last.op = "shutdown"
    /\ last.raised = NotRunning
    /\ was_shut_down
    /\ "default" \in DOMAIN jobstores
    /\ jobstores["default"] # <<>>

\* The jobs start() is to insert into the store `alias`, in pending order,
\* each with its first run time.
RECURSIVE FlushedInto(_, _)
FlushedInto(pend, alias) ==
    IF pend = <<>> THEN <<>>
    ELSE (IF Head(pend).alias = alias
          THEN <<[Head(pend).job EXCEPT
                    !.next_run_time = NextFireTime(Head(pend).job.trigger, now)]>>
          ELSE <<>>) \o FlushedInto(Tail(pend), alias)

RECURSIVE AddedEvents(_)
AddedEvents(pend) ==
    IF pend = <<>> THEN <<>>
    ELSE <<Event("JOB_ADDED", Head(pend).alias, Head(pend).job.id)>>
         \o AddedEvents(Tail(pend))

StoreOrEmpty(stores, alias) ==
    IF alias \in DOMAIN stores THEN stores[alias] ELSE <<>>

\* Every pending entry names a registered store (or "default", which start()
\* installs), and its id is taken neither in that store nor by an earlier
\* pending entry for the same store.
Flushable ==
    \A i \in 1..Len(pending) :
        LET a == pending[i].alias
            id == pending[i].job.id
        IN /\ a \in DOMAIN jobstores \cup {"default"}
           /\ id \notin Ids(StoreOrEmpty(jobstores, a))
           /\ \A k \in 1..(i - 1) :
                  pending[k].alias = a => pending[k].job.id # id

\* An add_job on a stopped scheduler adds its handle at the end of what
\* get_jobs(pending=True) returns.
PendingListedStep ==
    (last'.op = "add_job" /\ ~running) =>
        /\ GetJobs(NoAlias, "True").raised = NoError
        /\ GetJobs(NoAlias, "True")'.jobs
             = Append(GetJobs(NoAlias, "True").jobs,
                      [alias |-> last'.arg.alias, id |-> last'.arg.id])

\* start() has put every pending job into its store in pending order,
\* notified JOB_ADDED for each in that order and then SCHEDULER_STARTED, and
\* emptied the pending list.
FlushEffect ==
    /\ last'.raised = NoError
    /\ running'
    /\ pending' = <<>>
    /\ \A a \in DOMAIN jobstores' :
           jobstores'[a] = StoreOrEmpty(jobstores, a) \o FlushedInto(pending, a)
    /\ \A i \in 1..Len(pending) : pending[i].alias \in DOMAIN jobstores'
    /\ OfCode(events', {"JOB_ADDED", "SCHEDULER_STARTED"})
         = AddedEvents(pending) \o <<SchedulerEvent("SCHEDULER_STARTED")>>

\* C2 as claimed: for any add_job calls made while stopped, get_jobs(pending=
\* True) lists them, and start() inserts every pending job into its named
\* store in order, emits JOB_ADDED per job in order, then SCHEDULER_STARTED,
\* and leaves the pending list empty.
C2_AnyPendingFlushed ==
    [][ /\ PendingListedStep
        /\ (last'.op = "start" /\ ~running) => FlushEffect ]_vars

\* C2 as amended: the same, for pending entries whose store alias is
\* registered when start() runs (or is "default") and whose id collides with
\* no job of that store and with no earlier pending entry for it.
C2_FlushablePendingFlushed ==
    [][ /\ PendingListedStep
        /\ (last'.op = "start" /\ ~running /\ Flushable) => FlushEffect ]_vars

\* start() has flushed two pending jobs.
C2_Witness ==
    /\ last.op = "start"
    /\ last.raised = NoError
    /\ Len(OfCode(events, {"JOB_ADDED"})) = 2
    /\ pending = <<>>

\* C4: between a shutdown() and the next start(), add_job, modify_job and
\* remove_job raise SchedulerNotRunningError and change neither the pending
\* list nor a job store.
C4_MutationsFailAfterShutdown ==
    [][ (was_shut_down /\ last'.op \in {"add_job", "modify_job", "remove_job"}) =>
            /\ last'.raised = NotRunning
            /\ UNCHANGED <<pending, jobstores>> ]_vars

\* C6: a modify_job with an empty change set that finds its job leaves the
\* pending list and the stores as they were and emits no event.
C6_EmptyModifyIsNoOp ==
    [][ (/\ last'.op = "modify_job"
         /\ last'.arg.changes = {}
         /\ last'.raised = NoError) =>
            /\ UNCHANGED <<pending, jobstores>>
            /\ events' = <<>> ]_vars

\* The handles get_jobs(alias, flag) is to return: the pending entries bound
\* for `alias` (all of them for NoAlias) unless flag is "False", and the jobs
\* of the store registered under `alias` (of every store for NoAlias) unless
\* flag is "True".
HandlesWanted(alias, flag) ==
    (IF flag = "False" THEN {}
     ELSE {[alias |-> pending[i].alias, id |-> pending[i].job.id] :
              i \in {k \in 1..Len(pending) :
                        alias = NoAlias \/ pending[k].alias = alias}})
    \cup
    (IF flag = "True" THEN {}
     ELSE UNION {{[alias |-> a, id |-> id] : id \in Ids(jobstores[a])} :
                    a \in {b \in DOMAIN jobstores : alias = NoAlias \/ b = alias}})

\* C15: whatever the alias and the pending flag, get_jobs raises nothing and
\* returns handles for exactly the pending entries and stored jobs asked for.
C15_GetJobsListsExactly ==
    \A alias \in Aliases \cup {NoAlias}, flag \in {"True", "False", "None"} :
        LET r == GetJobs(alias, flag)
        IN /\ r.raised = NoError
           /\ {r.jobs[i] : i \in 1..Len(r.jobs)} = HandlesWanted(alias, flag)

\* ======================================================================
\* The listener list (specification SpecListeners)
\* ======================================================================
Callbacks == {"f", "g"}
AllEvents == {"SCHEDULER_STARTED", "SCHEDULER_SHUTDOWN", "JOBSTORE_ADDED",
              "JOBSTORE_REMOVED", "JOB_ADDED", "JOB_MODIFIED", "JOB_REMOVED",
              "JOB_EXECUTED", "JOB_ERROR", "JOB_MISSED"}
\* A mask is the set of the event codes whose bits it holds.
Masks == {AllEvents, {"JOB_ADDED"}}

\* add_listener(callback, mask)
AddListener(callback, mask) ==
    /\ Len(listeners) < MaxListeners
    /\ listeners' = Append(listeners, <<callback, mask>>)
    /\ events' = <<>>
    /\ last' = Call("add_listener", callback, NoError)
    /\ UNCHANGED <<sched, config, steps, collab, now, was_shut_down, firing, threads>>

\* remove_listener's loop from list index i on: `for i, (cb, _) in
\* enumerate(self._listeners)` deletes from the list it is iterating, and the
\* list iterator goes on at index i + 1 of the list as it then is.
RECURSIVE RemoveScan(_, _, _)
RemoveScan(ls, i, callback) ==
    IF i > Len(ls) THEN ls
    ELSE IF ls[i][1] = callback
         THEN RemoveScan(DeleteAt(ls, i), i + 1, callback)
         ELSE RemoveScan(ls, i + 1, callback)

\* remove_listener(callback)
RemoveListener(callback) ==
    /\ listeners' = RemoveScan(listeners, 1, callback)
    /\ events' = <<>>
    /\ last' = Call("remove_listener", callback, NoError)
    /\ UNCHANGED <<sched, config, steps, collab, now, was_shut_down, firing, threads>>

NextListeners ==
    \/ \E cb \in Callbacks, m \in Masks : AddListener(cb, m)
    \/ \E cb \in Callbacks : RemoveListener(cb)

SpecListeners == Init /\ [][NextListeners]_vars

\* The list without its first registration of `callback`, if it has one.
WithoutFirst(ls, callback) ==
    LET i == FirstIndex(ls, LAMBDA l : l[1] = callback)
    IN IF i = 0 THEN ls ELSE DeleteAt(ls, i)

\* C7: remove_listener(cb) removes exactly the first registration of cb and
\* leaves every other registration, later ones of cb included, in place and
\* in order; with no registration of cb the list is unchanged.
C7_RemovesFirstMatchOnly ==
    [][ last'.op = "remove_listener" =>
            listeners' = WithoutFirst(listeners, last'.arg) ]_vars

\* ======================================================================
\* start, shutdown and the registries (specification SpecLifecycle)
\* ======================================================================
NextLifecycle ==
    \/ Start
    \/ \E wait \in BOOLEAN : Shutdown(wait)
    \/ \E a \in Aliases : AddExecutor(a)
    \/ \E a \in Aliases : AddJobstore(a)
    \/ AddListener("f", AllEvents)

SpecLifecycle == Init /\ [][NextLifecycle]_vars

\* The positions of the calls of `method` in the call log cs.
CallsOf(cs, method) == {k \in 1..Len(cs) : cs[k].call = method}

\* C16: shutdown(wait) on a running scheduler calls shutdown(wait) once on
\* every registered executor, then close() once on every registered store,
\* then notifies exactly one SCHEDULER_SHUTDOWN, and leaves the scheduler
\* stopped.
C16_ShutdownOrder ==
    [][ (last'.op = "shutdown" /\ running) =>
          LET downs == CallsOf(called', "executor.shutdown")
              closes == CallsOf(called', "jobstore.close")
              notes == CallsOf(called', "listeners.copy")
          IN /\ \A a \in executors :
                    Cardinality({k \in downs : called'[k].on = a}) = 1
             /\ \A k \in downs : /\ called'[k].on \in executors
                                 /\ called'[k].arg = <<last'.arg>>
             /\ \A a \in DOMAIN jobstores :
                    Cardinality({k \in closes : called'[k].on = a}) = 1
             /\ \A k \in closes : called'[k].on \in DOMAIN jobstores
             /\ \A d \in downs, c \in closes : d < c
             /\ Cardinality(notes) = 1
             /\ \A n \in notes :
                    /\ called'[n].on = "SCHEDULER_SHUTDOWN"
                    /\ \A c \in closes : c < n
             /\ events' = <<SchedulerEvent("SCHEDULER_SHUTDOWN")>>
             /\ ~running' ]_vars

\* shutdown(wait) has returned on a scheduler with two executors, two stores
\* and a listener.
C16_Witness ==
    /\ last.op = "shutdown"
    /\ last.raised = NoError
    /\ executors = Aliases
    /\ DOMAIN jobstores = Aliases
    /\ Cardinality(CallsOf(called, "listener.callback")) = 1
    /\ ~running

\* C17: start(scheduler) is invoked on no executor on which it was invoked
\* before, and every executor registered on a running scheduler has been
\* started: by add_executor when the scheduler runs, by start() otherwise.
C17_ExecutorStartedOnce ==
    [][ last'.op \in {"start", "add_executor"} =>
          /\ \A k \in CallsOf(called', "executor.start") :
                 called'[k].on \notin started
          /\ running' => executors' \subseteq started' ]_vars

\* ======================================================================
\* _notify_listeners, interleaved with add_listener and remove_listener on
\* other threads (specification SpecNotify)
\* ======================================================================
NotifyEvents == {Event("JOB_ADDED", "default", 1),
                 SchedulerEvent("SCHEDULER_STARTED")}
ListenerError == "Exception"

\* _notify_listeners, lines 446-447: the listener list is copied under
\* _listeners_lock.
NotifySnapshot(event) ==
    /\ npc = "idle"
    /\ nsnap' = listeners
    /\ nevent' = event
    /\ nidx' = 1
    /\ delivered' = <<>>
    /\ npc' = "loop"
    /\ events' = <<event>>
    /\ last' = Call("notify_listeners", event, NoError)
    /\ UNCHANGED <<sched, listeners, config, collab, now, was_shut_down, firing,
                   threads>>

\* One turn of the loop of lines 449-454 in which an exception of the
\* callback leaves _notify_listeners.
NotifyInvokeUncaught(raises) ==
    /\ npc = "loop"
    /\ IF nidx > Len(nsnap)
       THEN /\ npc' = "idle"
            /\ last' = Call("notify_listeners", nevent, NoError)
            /\ UNCHANGED <<nidx, delivered>>
       ELSE IF nevent[1] \in nsnap[nidx][2]
       THEN /\ delivered' = Append(delivered, [index |-> nidx,
                                               callback |-> nsnap[nidx][1],
                                               raised |-> raises])
            /\ IF raises
               THEN /\ npc' = "idle"
                    /\ last' = Call("notify_listeners", nevent, ListenerError)
                    /\ UNCHANGED nidx
               ELSE /\ nidx' = nidx + 1
                    /\ UNCHANGED <<npc, last>>
       ELSE /\ nidx' = nidx + 1
            /\ UNCHANGED <<npc, delivered, last>>
    /\ UNCHANGED <<sched, listeners, config, collab, now, events, was_shut_down,
                   firing, threads, nsnap, nevent>>

\* _notify_listeners, lines 449-454: one turn of `for cb, mask in listeners`
\* over the copy, or its end.  `raises` tells whether the callback raises;
\* the bare except logs the exception and the loop goes on.
NotifyInvoke(raises) ==
    /\ npc = "loop"
    /\ IF nidx > Len(nsnap)
       THEN /\ npc' = "idle"
            /\ last' = Call("notify_listeners", nevent, NoError)
            /\ UNCHANGED <<nidx, delivered>>
       ELSE /\ nidx' = nidx + 1
            /\ delivered' = IF nevent[1] \in nsnap[nidx][2]
                            THEN Append(delivered, [index |-> nidx,
                                                    callback |-> nsnap[nidx][1],
                                                    raised |-> raises])
                            ELSE delivered
            /\ UNCHANGED <<npc, last>>
    /\ UNCHANGED <<sched, listeners, config, collab, now, events, was_shut_down,
                   firing, threads, nsnap, nevent>>

NextNotify ==
    \/ \E cb \in Callbacks, m \in Masks : AddListener(cb, m)
    \/ \E cb \in Callbacks : RemoveListener(cb)
    \/ \E e \in NotifyEvents : NotifySnapshot(e)
    \/ \E raises \in BOOLEAN : NotifyInvoke(raises)

SpecNotify == Init /\ [][NextNotify]_vars

\* C11: _notify_listeners copies the listeners registered at that moment, and
\* by its return it has invoked each registration of the copy whose mask holds
\* the event's code exactly once, in registration order, whether or not
\* earlier callbacks raised, and no exception has left it.
C11_EveryMatchingListenerInvoked ==
    [][ /\ (npc = "idle" /\ npc' = "loop") => nsnap' = listeners
        /\ (npc = "loop" /\ npc' = "idle") =>
              LET want == MatchingFrom(nsnap, 1, nevent)
              IN /\ last'.raised = NoError
                 /\ Len(delivered') = Len(want)
                 /\ \A k \in 1..Len(want) :
                        /\ delivered'[k].index = want[k]
                        /\ delivered'[k].callback = nsnap[want[k]][1] ]_vars

\* A notification has returned after its first callback raised and a later
\* one was invoked, while the listener list changed under it.
C11_Witness ==
    /\ npc = "idle"
    /\ last.op = "notify_listeners"
    /\ Len(delivered) >= 2
    /\ delivered[1].raised
    /\ Len(delivered) < Len(nsnap)
    /\ listeners # nsnap

\* ======================================================================
\* start() interleaved with mutation calls on other threads
\* (specification SpecRace)
\*
\* start() takes no lock and add_job takes none around its test of
\* self.running and its append, so their statements interleave; modify_job
\* and remove_job run under _jobstores_lock, which start() and add_job never
\* take, so each is one step that may fall between any two of theirs.
\* ======================================================================

\* start(), line 55: the test of self.running.
StartCheck ==
    /\ spc = "idle"
    /\ IF running
       THEN /\ last' = Call("start", None, AlreadyRunning)
            /\ UNCHANGED spc
       ELSE /\ last' = Call("start", None, NoError)
            /\ spc' = "defaults"
    /\ events' = <<>>
    /\ UNCHANGED <<sched, listeners, config, steps, collab, now, was_shut_down, firing, sidx,
                   apc, ajob, handles>>

\* start(), lines 58-68: the default executor and store, the executors started.
StartDefaults ==
    /\ spc = "defaults"
    /\ executors' = executors \cup {"default"}
    /\ called' = CallsOn("executor.start", AliasOrder, executors', <<>>)
    /\ started' = started \cup executors'
    /\ IF "default" \in DOMAIN jobstores
       THEN /\ events' = <<>>
            /\ UNCHANGED jobstores
       ELSE /\ events' = <<Event("JOBSTORE_ADDED", "default", None)>>
            /\ jobstores' = jobstores @@ ("default" :> <<>>)
    /\ spc' = "loop"
    /\ sidx' = 1
    /\ UNCHANGED <<stopped, pending, listeners, config, steps, now, last,
                   was_shut_down, firing, apc, ajob, handles>>

\* start(), lines 71-72: one turn of `for job, jobstore in
\* self._pending_jobs`; the list iterator compares its index with the length
\* the list has now.
StartLoop ==
    /\ spc = "loop"
    /\ IF sidx <= Len(pending)
       THEN LET r == RealAddJob(pending[sidx].job, pending[sidx].alias, jobstores)
            IN /\ jobstores' = r.stores
               /\ pending' = [pending EXCEPT ![sidx].job = r.job]
               /\ events' = r.events
               /\ IF r.raised = NoError
                  THEN /\ sidx' = sidx + 1
                       /\ UNCHANGED <<spc, last>>
                  ELSE /\ spc' = "idle"
                       /\ last' = Call("start", None, r.raised)
                       /\ UNCHANGED sidx
       ELSE /\ spc' = "clear"
            /\ events' = <<>>
            /\ UNCHANGED <<jobstores, pending, sidx, last>>
    /\ UNCHANGED <<stopped, executors, listeners, config, steps, collab, now, was_shut_down,
                   firing, apc, ajob, handles>>

\* start(), line 73: del self._pending_jobs[:]
StartClear ==
    /\ spc = "clear"
    /\ pending' = <<>>
    /\ spc' = "flag"
    /\ events' = <<>>
    /\ UNCHANGED <<stopped, executors, jobstores, listeners, config, steps, collab, now, last,
                   was_shut_down, firing, sidx, apc, ajob, handles>>

\* start(), line 75: self._stopped = False
StartFlag ==
    /\ spc = "flag"
    /\ stopped' = FALSE
    /\ was_shut_down' = FALSE
    /\ spc' = "notify"
    /\ events' = <<>>
    /\ UNCHANGED <<executors, jobstores, pending, listeners, config, steps, collab, now, last,
                   firing, sidx, apc, ajob, handles>>

\* start(), line 79: SCHEDULER_STARTED is notified and start() returns.
StartReturn ==
    /\ spc = "notify"
    /\ events' = <<SchedulerEvent("SCHEDULER_STARTED")>>
    /\ spc' = "done"
    /\ last' = Call("start", None, NoError)
    /\ UNCHANGED <<sched, listeners, config, steps, collab, now, was_shut_down, firing, sidx,
                   apc, ajob, handles>>

\* add_job, lines 231-256: the job is built and self.running is tested.  Each
\* id is used for one job at a time.
AddJobCheck(trigger, id, alias) ==
    /\ apc = "idle"
    /\ id \notin handles
    /\ ajob' = [job |-> NewJob(trigger, id, None, <<>>, None, 1, "default"),
                alias |-> alias]
    /\ apc' = IF ~running THEN "append" ELSE "real"
    /\ events' = <<>>
    /\ last' = Call("add_job", [id |-> id, alias |-> alias, trigger |-> trigger],
                    NoError)
    /\ UNCHANGED <<sched, listeners, config, steps, collab, now, was_shut_down, firing, spc,
                   sidx, handles>>

\* add_job, lines 257 and 262: the append to the pending list, the handle.
AddJobAppend ==
    /\ apc = "append"
    /\ pending' = Append(pending, ajob)
    /\ handles' = handles \cup {ajob.job.id}
    /\ apc' = "idle"
    /\ ajob' = <<>>
    /\ events' = <<>>
    /\ UNCHANGED <<stopped, executors, jobstores, listeners, config, steps, collab, now, last,
                   was_shut_down, firing, spc, sidx>>

\* add_job, lines 260 and 262: _real_add_job, the handle.
AddJobReal ==
    /\ apc = "real"
    /\ LET r == RealAddJob(ajob.job, ajob.alias, jobstores)
       IN /\ jobstores' = r.stores
          /\ events' = r.events
          /\ handles' = IF r.raised = NoError
                        THEN handles \cup {ajob.job.id} ELSE handles
          /\ last' = [last EXCEPT !.raised = r.raised]
    /\ apc' = "idle"
    /\ ajob' = <<>>
    /\ UNCHANGED <<stopped, executors, pending, listeners, config, steps, collab, now,
                   was_shut_down, firing, spc, sidx>>

\* remove_job(id, alias) on a job whose handle the caller holds.
RaceRemoveJob(id, alias) ==
    /\ id \in handles
    /\ LET r == RemoveJobOutcome(pending, jobstores, id, alias)
       IN /\ pending' = r.pending
          /\ jobstores' = r.stores
          /\ events' = r.events
          /\ handles' = IF r.raised = NoError THEN handles \ {id} ELSE handles
          /\ last' = Call("remove_job", [id |-> id, alias |-> alias], r.raised)
    /\ UNCHANGED <<stopped, executors, listeners, config, steps, collab, now, was_shut_down,
                   firing, spc, sidx, apc, ajob>>

\* modify_job(id, alias, **changes) on a job whose handle the caller holds.
RaceModifyJob(id, alias, changes) ==
    /\ id \in handles
    /\ ModifyJob(id, alias, changes)

NextRace ==
    \/ StartCheck
    \/ StartDefaults
    \/ StartLoop
    \/ StartClear
    \/ StartFlag
    \/ StartReturn
    \/ \E id \in JobIds : AddJobCheck(ApiTrigger, id, "default")
    \/ AddJobAppend
    \/ AddJobReal
    \/ \E id \in JobIds : RaceRemoveJob(id, "default")
    \/ \E id \in JobIds, c \in ApiChanges : RaceModifyJob(id, "default", c)

SpecRace == Init /\ [][NextRace]_vars

\* C3: once start() has returned and no add_job is under way, the pending
\* list is empty and every job whose handle add_job returned, and which was
\* not removed, is in its store.
C3_NoJobLostOrLeftPending ==
    (spc = "done" /\ apc = "idle") =>
        /\ pending = <<>>
        /\ \A id \in handles : id \in Ids(jobstores["default"])

\* ======================================================================
\* The firing loop (specification SpecFire)
\* ======================================================================

\* The trigger's fire times in [t, T], ascending.
RECURSIVE FireTimesFrom(_, _, _)
FireTimesFrom(trigger, t, T) ==
    LET f == NextFireTime(trigger, t)
    IN IF f = None \/ f > T THEN <<>>
       ELSE <<f>> \o FireTimesFrom(trigger, f + 1, T)

\* job.get_run_times(T): every fire time in [next_run_time, T] that is not
\* older than T - misfire_grace_time.
GetRunTimes(job, T) ==
    IF job.next_run_time = None THEN <<>>
    ELSE SelectSeq(FireTimesFrom(job.trigger, job.next_run_time, T),
                   LAMBDA t : job.misfire_grace_time = None
                              \/ T - t <= job.misfire_grace_time)

Earlier(a, b) == IF a = None THEN b ELSE IF b = None THEN a
                 ELSE IF a <= b THEN a ELSE b

\* jobstore.get_pending_jobs(T): the jobs due at T, and the earliest
\* next_run_time after T.
GetPendingJobs(store, T) ==
    LET later == {store[i].next_run_time : i \in 1..Len(store)} \ ((0 - 1)..T)
    IN [jobs |-> SelectSeq(store, LAMBDA j : j.next_run_time # None
                                             /\ j.next_run_time <= T),
        next |-> IF later = {} THEN None
                 ELSE CHOOSE t \in later : \A u \in later : t <= u]

\* Line 513 with run_times[:1] for run_times[-1:].
CoalescedFirst(job, all) ==
    IF all # <<>> /\ job.coalesce THEN <<all[1]>> ELSE all

\* Line 513: a coalescing job keeps the latest of its run times only.
Coalesced(job, all) ==
    IF all # <<>> /\ job.coalesce THEN <<all[Len(all)]>> ELSE all

MaxInstancesReached == "MaxInstancesReachedError"
SubmitError == "Exception"

\* executor.submit_job(job, run_times): what it raises, given the instances
\* of the job that run and `faulty`, the ids of the jobs whose submission
\* fails for another reason.
SubmitJob(job, running_instances, faulty) ==
    IF running_instances[job.id] >= job.max_instances THEN MaxInstancesReached
    ELSE IF job.id \in faulty THEN SubmitError
    ELSE NoError

\* The calls of the scan that are made outside any try block; st.fail holds
\* those that raise in this scan.
FaultSites == {"get_pending_jobs", "get_run_times", "get_next_fire_time",
               "modify_job", "remove_job"}
CollaboratorError == "Exception"

Raise(st) == [st EXCEPT !.raised = CollaboratorError]

\* The scan runs from its first store to its last inside `with
\* self._jobstores_lock` (line 496).
ScanLocks == {"jobstores"}

\* What a listener registered for JOB_REMOVED does when the scan notifies the
\* removal of job `removed_id` (line 535, through remove_job's line 353): the
\* callback runs on the scan's thread, inside the scan's reentrant lock, and
\* calls remove_job(st.react, alias) unless st.react is None or the job just
\* removed; _notify_listeners swallows what that call raises.
React(st, alias, removed_id) ==
    IF st.react = None \/ st.react = removed_id THEN st
    ELSE LET q == RemoveJobOutcome(st.pending, st.stores, st.react, alias)
         IN IF q.raised # NoError THEN st
            ELSE [st EXCEPT
                    !.pending = q.pending, !.stores = q.stores,
                    !.events = @ \o q.events,
                    !.called = Append(@, CallOn("jobstore.remove_job", alias,
                                                <<st.react>>, ScanLocks))
                               \o Notified(q.events[1], ScanLocks)]

\* The body of `for job in jobs` (lines 504-535) for one due job, on the
\* scan's state st.  st.subs lists the submit_job calls made, each with the
\* job as it was, the run times that survived the grace check (due), the run
\* times passed (run_times) and the outcome.
ProcessJob(st, alias, job, T, faulty) ==
    LET all == GetRunTimes(job, T)
        run_times == Coalesced(job, all)
        outcome == SubmitJob(job, st.inflight, faulty)
        call == [job |-> job, run_times |-> run_times, due |-> all, at |-> T,
                 outcome |-> outcome]
        job_runs == job.runs + Len(run_times)
        job_next_run == NextFireTime(job.trigger, T + 1)
        made == CallOn("executor.submit_job", job.executor, <<job.id>>,
                       ScanLocks)
        sent == [st EXCEPT
                   !.subs = Append(@, call),
                   !.called = Append(@, made),
                   !.submitted[job.id] = @ + Len(run_times),
                   !.inflight[job.id] = @ + 1]
    IN IF job.executor \notin executors THEN st
       ELSE IF "get_run_times" \in st.fail THEN Raise(st)
       ELSE IF run_times = <<>> THEN st
       ELSE IF outcome # NoError
       THEN [st EXCEPT !.subs = Append(@, call), !.called = Append(@, made)]
       ELSE IF "get_next_fire_time" \in st.fail THEN Raise(sent)
       ELSE IF job_next_run # None
               /\ (job.max_runs = None \/ job_runs < job.max_runs)
       THEN IF "modify_job" \in st.fail THEN Raise(sent)
            ELSE IF ~StoreHas(sent.stores[alias], job.id)
            THEN [sent EXCEPT !.raised = JobLookupError]
            ELSE [sent EXCEPT
                    !.stores[alias] =
                        StoreModifyJob(@, job.id,
                                       {<<"next_run_time", job_next_run>>,
                                        <<"runs", job_runs>>}),
                    !.wakeup = Earlier(@, job_next_run)]
       ELSE IF "remove_job" \in st.fail THEN Raise(sent)
       ELSE LET r == RemoveJobOutcome(sent.pending, sent.stores, job.id, alias)
            IN IF r.raised # NoError THEN [sent EXCEPT !.raised = r.raised]
               ELSE React([sent EXCEPT
                             !.pending = r.pending, !.stores = r.stores,
                             !.events = @ \o r.events,
                             !.called = Append(@, CallOn("jobstore.remove_job",
                                                         alias, <<job.id>>,
                                                         ScanLocks))
                                        \o Notified(r.events[1], ScanLocks)],
                          alias, job.id)

\* The loop of line 504 with `break` for the `continue` of lines 510, 521
\* and 524.
RECURSIVE ProcessDueBreaking(_, _, _, _, _)
ProcessDueBreaking(st, alias, jobs, T, faulty) ==
    IF jobs = <<>> \/ st.raised # NoError THEN st
    ELSE LET st1 == ProcessJob(st, alias, Head(jobs), T, faulty)
         IN IF st1.submitted = st.submitted THEN st1
            ELSE ProcessDueBreaking(st1, alias, Tail(jobs), T, faulty)

\* The loop `for job in jobs` of line 504 over the due jobs fetched.
RECURSIVE ProcessDue(_, _, _, _, _)
ProcessDue(st, alias, jobs, T, faulty) ==
    IF jobs = <<>> \/ st.raised # NoError THEN st
    ELSE ProcessDue(ProcessJob(st, alias, Head(jobs), T, faulty), alias,
                    Tail(jobs), T, faulty)

\* The loop over the registered stores (lines 497-535), in dict order.
RECURSIVE ProcessStores(_, _, _, _)
ProcessStores(st, order, T, faulty) ==
    IF order = <<>> \/ st.raised # NoError THEN st
    ELSE IF Head(order) \notin DOMAIN st.stores
    THEN ProcessStores(st, Tail(order), T, faulty)
    ELSE IF "get_pending_jobs" \in st.fail THEN Raise(st)
    ELSE LET due == GetPendingJobs(st.stores[Head(order)], T)
             st1 == [st EXCEPT !.wakeup = Earlier(@, due.next)]
         IN ProcessStores(ProcessDue(st1, Head(order), due.jobs, T, faulty),
                          Tail(order), T, faulty)

\* _process_jobs() in which the calls of `fail` raise and the listener reacts
\* to JOB_REMOVED by remove_job(react): an exception raised outside the try
\* blocks of lines 506-510 and 515-524 leaves _process_jobs, which then
\* returns no wait value.
Scan(faulty, fail, react) ==
    /\ running
    /\ LET st == ProcessStores([stores |-> jobstores, pending |-> pending,
                                events |-> <<>>, subs |-> <<>>,
                                submitted |-> submitted, inflight |-> inflight,
                                wakeup |-> None, fail |-> fail,
                                react |-> react, called |-> <<>>,
                                raised |-> NoError],
                               AliasOrder, now, faulty)
       IN /\ jobstores' = st.stores
          /\ pending' = st.pending
          /\ events' = st.events
          /\ submissions' = st.subs
          /\ submitted' = st.submitted
          /\ inflight' = st.inflight
          /\ wait_seconds' = IF st.raised # NoError THEN wait_seconds
                             ELSE IF st.wakeup = None THEN None
                             ELSE st.wakeup - now
          /\ called' = st.called
          /\ last' = Call("process_jobs", faulty, st.raised)
    /\ UNCHANGED <<stopped, executors, listeners, config, steps, started, now,
                   was_shut_down, threads>>

\* _process_jobs() with stores, jobs and triggers that do not raise.
ProcessJobs(faulty) == Scan(faulty, {}, None)

\* _process_jobs() in which the call `site` raises whenever it is made.
ProcessJobsFailing(faulty, site) ==
    /\ \A id \in JobIds : submitted[id] < MaxTime
    /\ Scan(faulty, {site}, None)

\* _process_jobs() with a listener registered for JOB_REMOVED whose callback
\* calls remove_job(react, alias).
ProcessJobsReacting(faulty, react) ==
    /\ \E i \in 1..Len(listeners) : "JOB_REMOVED" \in listeners[i][2]
    /\ Scan(faulty, {}, react)

\* The executor finishes one running instance of job id.
JobDone(id) ==
    /\ inflight[id] > 0
    /\ inflight' = [inflight EXCEPT ![id] = @ - 1]
    /\ events' = <<>>
    /\ last' = Call("job_done", id, NoError)
    /\ UNCHANGED <<sched, listeners, config, steps, collab, now, was_shut_down, submissions,
                   submitted, wait_seconds, threads>>

\* A started scheduler with its default executor and store and no job.
InitFire ==
    /\ stopped = FALSE
    /\ executors = {"default"}
    /\ jobstores = ("default" :> <<>>)
    /\ pending = <<>>
    /\ listeners = <<>>
    /\ misfire_grace_time \in ConfigGraces
    /\ coalesce = TRUE
    /\ now = 0
    /\ events = <<Event("JOBSTORE_ADDED", "default", None),
                  SchedulerEvent("SCHEDULER_STARTED")>>
    /\ last = Call("start", None, NoError)
    /\ was_shut_down = FALSE
    /\ submissions = <<>>
    /\ submitted = [id \in JobIds |-> 0]
    /\ inflight = [id \in JobIds |-> 0]
    /\ wait_seconds = None
    /\ spc = "idle"
    /\ sidx = 0
    /\ apc = "idle"
    /\ ajob = <<>>
    /\ handles = {}
    /\ called = <<CallOn("executor.start", "default", <<>>, {})>>
    /\ started = {"default"}
    /\ InitSteps

\* The add_job arguments of this specification.  Each id names one job.
MaxFireJobs == 1
FireJobIds == 1..MaxFireJobs
FireTriggers == {NoTrigger, IntervalTrigger(0, 1), IntervalTrigger(0, 2)}
FireGraces == {None, 0}
FireCoalesce == {<<>>, <<FALSE>>}
FireMaxRuns == {None, 1}
FireExecutors == {"default", "missing"}

NextFire ==
    \/ \E t \in FireTriggers, id \in FireJobIds, g \in FireGraces,
          c \in FireCoalesce, m \in FireMaxRuns, e \in FireExecutors :
           /\ submitted[id] = 0
           /\ AddJob(t, id, g, c, m, "default", e)
    \/ Tick
    \/ \E faulty \in SUBSET FireJobIds : ProcessJobs(faulty)
    \/ \E id \in FireJobIds : JobDone(id)

SpecFire == InitFire /\ [][NextFire]_vars

\* The jobs of every registered store.
StoredJobs(stores) ==
    UNION {{stores[a][i] : i \in 1..Len(stores[a])} : a \in DOMAIN stores}

SubmitCalls(subs, id) == SelectSeq(subs, LAMBDA c : c.job.id = id)

\* C5: a job created by add_job without a trigger has misfire_grace_time =
\* None, whatever grace was passed and whatever the configured default is.
C5_NoTriggerMeansUnlimitedGrace ==
    [][ (/\ last'.op = "add_job"
         /\ last'.arg.trigger = NoTrigger
         /\ last'.raised = NoError) =>
            LET added == IF running
                         THEN jobstores'[last'.arg.alias]
                         ELSE [i \in 1..Len(pending') |-> pending'[i].job]
            IN added[Len(added)].misfire_grace_time = None ]_vars

\* C8: the run times submitted with success for a job never number more
\* than its max_runs.
C8_SubmittedWithinMaxRuns ==
    \A i \in 1..Len(submissions) :
        LET job == submissions[i].job
        IN job.max_runs # None => submitted[job.id] <= job.max_runs

\* The coalescing jobs a scan at `now` finds with a surviving run time.
CoalescingDue(stores) ==
    {j \in StoredJobs(stores) : j.coalesce /\ GetRunTimes(j, now) # <<>>}

\* The scan has made one submit_job call for job j, with the latest of its
\* surviving run times alone.
OneSubmissionOfLatest(j) ==
    LET calls == SubmitCalls(submissions', j.id)
        due == GetRunTimes(j, now)
    IN /\ Len(calls) = 1
       /\ calls[1].run_times = <<due[Len(due)]>>

Succeeded(j) == SubmitCalls(submissions', j.id)[1].outcome = NoError

\* The stored job j has one run more and the trigger's first fire time after
\* the scan's `now` as its next_run_time.
Advanced(j) ==
    [j EXCEPT !.runs = j.runs + 1,
              !.next_run_time = NextFireTime(j.trigger, now + 1)]
        \in StoredJobs(jobstores')

\* C9 as claimed: a coalescing job with surviving due run times at a scan
\* gets exactly one submission with the latest run time alone, and on
\* success its runs grow by 1 and its stored next_run_time becomes the
\* trigger's first fire time strictly after the scan time.
C9_CoalescedAlwaysAdvanced ==
    [][ last'.op = "process_jobs" =>
            \A j \in CoalescingDue(jobstores) :
                /\ OneSubmissionOfLatest(j)
                /\ Succeeded(j) => Advanced(j) ]_vars

\* C9 as amended: the same for a job whose executor is registered; on
\* success the job is advanced when its trigger has a fire time after the
\* scan time and runs + 1 is below max_runs (or max_runs is None), and is
\* removed from its store otherwise.
C9_CoalescedAdvancedOrRetired ==
    [][ last'.op = "process_jobs" =>
            \A j \in CoalescingDue(jobstores) :
                j.executor \in executors =>
                    /\ OneSubmissionOfLatest(j)
                    /\ Succeeded(j) =>
                          IF /\ NextFireTime(j.trigger, now + 1) # None
                             /\ (j.max_runs = None \/ j.runs + 1 < j.max_runs)
                          THEN Advanced(j)
                          ELSE j.id \notin {k.id : k \in StoredJobs(jobstores')}
       ]_vars

\* A scan has collapsed two surviving run times of a coalescing job into one
\* submission and advanced the job.
C9_Witness ==
    /\ last.op = "process_jobs"
    /\ \E i \in 1..Len(submissions) :
           LET c == submissions[i]
           IN /\ c.job.coalesce
              /\ Len(c.due) >= 2
              /\ c.run_times = <<now>>
              /\ c.outcome = NoError
              /\ \E k \in StoredJobs(jobstores) :
                     /\ k.id = c.job.id
                     /\ k.runs = c.job.runs + 1
                     /\ k.next_run_time = now + 1

\* C10: a scan at or after a stored job's next_run_time, with the job's
\* executor registered and not at max_instances, submits the job or, when no
\* due fire time survives the grace check, emits JOB_MISSED for it.
C10_DueJobSubmittedOrMissed ==
    [][ last'.op = "process_jobs" =>
            \A a \in DOMAIN jobstores :
              \A i \in 1..Len(jobstores[a]) :
                LET j == jobstores[a][i]
                IN (/\ j.next_run_time # None
                    /\ j.next_run_time <= now
                    /\ j.executor \in executors
                    /\ inflight[j.id] < j.max_instances) =>
                       \/ SubmitCalls(submissions', j.id) # <<>>
                       \/ /\ GetRunTimes(j, now) = <<>>
                          /\ Event("JOB_MISSED", a, j.id)
                               \in {events'[k] : k \in 1..Len(events')} ]_vars

\* C19: a scan returns None only when no registered store holds a job with
\* a next_run_time; while a job remains scheduled, a due job the scan left
\* unadvanced included, it returns a wait in seconds.
C19_NoneOnlyWhenNothingScheduled ==
    [][ (/\ last'.op = "process_jobs"
         /\ last'.raised = NoError
         /\ wait_seconds' = None) =>
            \A j \in StoredJobs(jobstores') : j.next_run_time = None ]_vars

\* ======================================================================
\* The firing loop with stores, jobs and triggers that raise
\* (specification SpecFaults)
\* ======================================================================
NextFaults ==
    \/ \E t \in FireTriggers, id \in FireJobIds :
           /\ submitted[id] = 0
           /\ AddJob(t, id, None, <<>>, None, "default", "default")
    \/ Tick
    \/ \E faulty \in SUBSET FireJobIds : ProcessJobs(faulty)
    \/ \E faulty \in SUBSET FireJobIds, site \in FaultSites :
           ProcessJobsFailing(faulty, site)
    \/ \E id \in FireJobIds : JobDone(id)

SpecFaults == InitFire /\ [][NextFaults]_vars

\* C12: no exception leaves _process_jobs, whichever of the store's due scan,
\* the job's run-time computation, the trigger's next-fire-time computation,
\* the executor's submit and the store's update or removal raises; the scan
\* returns a wait value.
C12_ScanNeverRaises ==
    [][ last'.op = "process_jobs" => last'.raised = NoError ]_vars

\* ======================================================================
\* add_job on a running scheduler, interleaved with the firing loop on
\* another thread (specification SpecAddRace)
\*
\* _real_add_job takes no lock: the scan, which holds _jobstores_lock from
\* its first store to its last, can run between any two of its statements.
\* ======================================================================

\* _real_add_job, lines 458-465: the first run time, store.add_job(job).
AddJobInsert ==
    /\ apc = "real"
    /\ LET r == RealAddJob(ajob.job, ajob.alias, jobstores)
       IN /\ jobstores' = r.stores
          /\ last' = [last EXCEPT !.raised = r.raised]
          /\ IF r.raised = NoError
             THEN /\ apc' = "notify"
                  /\ ajob' = [ajob EXCEPT !.job = r.job]
             ELSE /\ apc' = "idle"
                  /\ ajob' = <<>>
    /\ events' = <<>>
    /\ UNCHANGED <<stopped, executors, pending, listeners, config, steps, collab,
                   now, was_shut_down, firing, spc, sidx, handles>>

\* _real_add_job, lines 468-469: JOB_ADDED is notified.
AddJobNotify ==
    /\ apc = "notify"
    /\ events' = <<Event("JOB_ADDED", ajob.alias, ajob.job.id)>>
    /\ apc' = "return"
    /\ UNCHANGED <<sched, listeners, config, steps, collab, now, last,
                   was_shut_down, firing, spc, sidx, ajob, handles>>

\* Lines 471-475 and 262: the wakeup, the handle returned.
AddJobReturn ==
    /\ apc = "return"
    /\ handles' = handles \cup {ajob.job.id}
    /\ apc' = "idle"
    /\ ajob' = <<>>
    /\ events' = <<>>
    /\ UNCHANGED <<sched, listeners, config, steps, collab, now, last,
                   was_shut_down, firing, spc, sidx>>

AddRaceTriggers == {NoTrigger, ApiTrigger}

NextAddRace ==
    \/ \E t \in AddRaceTriggers, id \in JobIds : AddJobCheck(t, id, "default")
    \/ AddJobInsert
    \/ AddJobNotify
    \/ AddJobReturn
    \/ Tick
    \/ ProcessJobs({})
    \/ \E id \in JobIds : JobDone(id)

SpecAddRace == InitFire /\ [][NextAddRace]_vars

\* JOB_ADDED has been notified for the job of this id.
JobAddedNotified(id) ==
    \/ id \in handles
    \/ apc = "return" /\ ajob.job.id = id

\* C13: a job the firing loop has submitted to an executor is a job whose
\* JOB_ADDED has been notified.
C13_AddedBeforeSubmitted ==
    \A id \in JobIds : submitted[id] > 0 => JobAddedNotified(id)

\* ======================================================================
\* remove_job against the firing loop: from another thread, and from a
\* listener called back in the middle of a scan (specification SpecRemove)
\*
\* remove_job and the scan both run under _jobstores_lock, so a remove_job of
\* another thread falls between two scans; a callback runs on the scan's own
\* thread, for which the reentrant lock is free.  The runs submitted here do
\* not end within the behaviours of this specification.
\* ======================================================================
RemoveTriggers == {NoTrigger, IntervalTrigger(0, 1)}

NextRemove ==
    \/ \E t \in RemoveTriggers, id \in JobIds :
           /\ submitted[id] = 0
           /\ now = 0
           /\ AddJob(t, id, None, <<>>, None, "default", "default")
    \/ listeners = <<>> /\ AddListener("f", AllEvents)
    \/ \E id \in JobIds : RemoveJob(id, "default")
    \/ Tick
    \/ ProcessJobs({})
    \/ \E id \in JobIds : ProcessJobsReacting({}, id)

SpecRemove == InitFire /\ [][NextRemove]_vars

IsCall(c, method, id) == c.call = method /\ c.arg = <<id>>

\* C14: a scan submits no job that is not in a store when the scan begins,
\* and none after a remove_job of that job returned during the scan.
C14_NoSubmissionAfterRemoval ==
    [][ last'.op = "process_jobs" =>
            \A k \in 1..Len(called') :
              \A id \in JobIds :
                IsCall(called'[k], "executor.submit_job", id) =>
                    /\ id \in Ids(jobstores["default"])
                    /\ \A i \in 1..(k - 1) :
                           ~IsCall(called'[i], "jobstore.remove_job", id) ]_vars

\* ======================================================================
\* Scans over two jobs, some of which cannot be submitted
\* (specification SpecSkip)
\* ======================================================================
SkipTrigger == IntervalTrigger(0, 1)

NextSkip ==
    \/ \E id \in JobIds, e \in FireExecutors :
           /\ submitted[id] = 0
           /\ now = 0
           /\ AddJob(SkipTrigger, id, None, <<>>, None, "default", e)
    \/ Tick
    \/ \E faulty \in SUBSET JobIds : ProcessJobs(faulty)
    \/ \E id \in JobIds : JobDone(id)

SpecSkip == InitFire /\ [][NextSkip]_vars

\* The scan at `now` finds job j due.
Due(j) == j.next_run_time # None /\ j.next_run_time <= now

\* The scan did not submit job j with success: its executor alias is not
\* registered, or its submit_job call raised.
NotSubmitted(j) ==
    \/ j.executor \notin executors
    \/ \E i \in 1..Len(submissions') :
           /\ submissions'[i].job = j
           /\ submissions'[i].outcome # NoError

\* C18: a due job that a scan does not submit with success stays in its
\* store with runs and next_run_time as they were, no JOB_REMOVED is notified
\* for it, and the due jobs after it in the scan are still submitted.
C18_FailedSubmissionLeavesJob ==
    [][ last'.op = "process_jobs" =>
          \A i \in 1..Len(jobstores["default"]) :
            LET j == jobstores["default"][i]
            IN (Due(j) /\ NotSubmitted(j)) =>
                 /\ Len(jobstores'["default"]) >= i
                 /\ j \in StoredJobs(jobstores')
                 /\ Event("JOB_REMOVED", "default", j.id)
                      \notin {events'[k] : k \in 1..Len(events')}
                 /\ \A n \in (i + 1)..Len(jobstores["default"]) :
                      LET k == jobstores["default"][n]
                      IN (/\ Due(k)
                          /\ k.executor \in executors
                          /\ GetRunTimes(k, now) # <<>>) =>
                             SubmitCalls(submissions', k.id) # <<>> ]_vars

\* A scan has failed to submit the first job of the store, left it as it
\* was, and submitted the second.
C18_Witness ==
    /\ last.op = "process_jobs"
    /\ Len(submissions) = 2
    /\ submissions[1].outcome = SubmitError
    /\ submissions[2].outcome = NoError
    /\ submissions[1].job \in StoredJobs(jobstores)

\* ======================================================================
\* The three scheduler locks
\* ======================================================================
Unlocked == {"executor.submit_job", "executor.start", "listener.callback"}

\* C20: a thread holds at most one of _executors_lock, _jobstores_lock and
\* _listeners_lock at a time, and none of them while an executor's
\* submit_job or start, or a listener callback, runs.
C20_LockDiscipline ==
    \A k \in 1..Len(called) :
        /\ Cardinality(called[k].held) <= 1
        /\ called[k].call \in Unlocked => called[k].held = {}

\* ======================================================================
\* Scans interleaved with modify_job (specification SpecModify)
\* ======================================================================
ModifyTrigger == IntervalTrigger(0, 1)
ModifyTimes == 0..MaxTime

NextModify ==
    \/ \E id \in FireJobIds, c \in FireCoalesce :
           /\ submitted[id] = 0
           /\ AddJob(ModifyTrigger, id, None, c, None, "default", "default")
    \/ \E id \in FireJobIds, t \in ModifyTimes :
           ModifyJob(id, "default", {<<"next_run_time", t>>})
    \/ Tick
    \/ /\ \A id \in JobIds : submitted[id] < MaxTime
       /\ ProcessJobs({})
    \/ \E id \in FireJobIds : JobDone(id)

SpecModify == InitFire /\ [][NextModify]_vars

\* The run times of the submit_job calls of the log `subs` that succeeded
\* for job id.
RunTimesSent(subs, id) ==
    UNION {{subs[i].run_times[k] : k \in 1..Len(subs[i].run_times)} :
             i \in {n \in 1..Len(subs) : /\ subs[n].job.id = id
                                         /\ subs[n].outcome = NoError}}

\* C21: a scan submits for a job no run time earlier than a run time the
\* scan before it submitted for that job, and after a successful submission
\* at scan time T the job, if still stored, has a next_run_time after T.
C21_RunTimesNeverGoBack ==
    [][ last'.op = "process_jobs" =>
          \A id \in JobIds :
            /\ \A t \in RunTimesSent(submissions, id),
                  u \in RunTimesSent(submissions', id) : t <= u
            /\ RunTimesSent(submissions', id) # {} =>
                  \A j \in StoredJobs(jobstores') :
                      j.id = id => (j.next_run_time # None
                                    /\ j.next_run_time > now) ]_vars

\* ======================================================================
\* start() failing on an unregistered store alias (specification Spec)
\* ======================================================================
\* The positions of the pending entries whose store alias start() will not
\* find: neither registered nor "default", which start() installs.
Unregistered ==
    {i \in 1..Len(pending) : pending[i].alias \notin DOMAIN jobstores \cup {"default"}}

\* C22: when start() raises KeyError for a pending entry whose store alias is
\* not registered, the scheduler stays stopped, SCHEDULER_STARTED is not
\* emitted, the pending list keeps every entry in order, and each entry
\* before the failing one is also in its store.
C22_FailedStartKeepsPending ==
    [][ (last'.op = "start" /\ ~running /\ last'.raised = KeyError) =>
          /\ Unregistered # {}
          /\ stopped'
          /\ OfCode(events', {"SCHEDULER_STARTED"}) = <<>>
          /\ Len(pending') = Len(pending)
          /\ \A i \in 1..Len(pending) :
                 /\ pending'[i].alias = pending[i].alias
                 /\ pending'[i].job.id = pending[i].job.id
                 /\ (\A u \in Unregistered : i < u) =>
                        /\ pending[i].alias \in DOMAIN jobstores'
                        /\ pending[i].job.id \in Ids(jobstores'[pending[i].alias])
                        /\ pending[i].job.id
                             \notin Ids(StoreOrEmpty(jobstores, pending[i].alias)) ]_vars

\* start() has raised KeyError on the second of two pending entries after
\* storing the first, which is still pending.
C22_Witness ==
    /\ last.op = "start"
    /\ last.raised = KeyError
    /\ stopped
    /\ Len(pending) = 2
    /\ pending[2].alias \notin DOMAIN jobstores
    /\ pending[1].alias \in DOMAIN jobstores
    /\ pending[1].job.id \in Ids(jobstores[pending[1].alias])
====
